---- MODULE Spec2Model ----
(***************************************************************************)
(* Push notification delivery and scheduling subsystem of the notes PWA    *)
(* backend: the push_subscriptions table, the subscribe handler, the two   *)
(* batch senders of PushNotificationService, the ad-hoc test send and the  *)
(* NotificationScheduler with its round-robin cursor.                      *)
(***************************************************************************)
EXTENDS Integers, Sequences, FiniteSets, TLC

VARIABLES
    subs,                \* table push_subscriptions, in insertion order
    notes,               \* table notes, in insertion order
    batch,               \* the two batch senders' local variables, per slot
    resp,                \* the last HTTP response sent by a handler
    running,             \* NotificationScheduler.scheduler.running
    jobs,                \* ids of the jobs registered with the scheduler
    current_note_index,  \* NotificationScheduler.current_note_index
    fired,               \* history: what each firing of the daily job selected
    environ,             \* os.environ: the configuration of the process
    starts,              \* history: the number of calls of start()
    caught,              \* history: the firings that ended in the except clause
    req                  \* subscribe requests in flight in other workers

vars == <<subs, notes, batch, resp, running, jobs, current_note_index, fired,
          environ, starts, caught, req>>

\* the variables no batch sender, handler or firing of this section touches
config == <<environ, starts, caught, req>>

---------------------------------------------------------------------------
(* Bounds of the model *)

NumEndpoints == 2
NumUsers == 2
MaxNotes == 3
MaxFirings == 4
MaxStarts == 2

---------------------------------------------------------------------------
(* Values *)

\* Python's None
NoneVal == "None"

Endpoint(i) == "E" \o ToString(i)
Endpoints == {Endpoint(i) : i \in 1..NumEndpoints}
Users == 1..NumUsers

\* what a client may put in the subscription dict: <<endpoint, p256dh, auth>>,
\* complete, or with one of the three missing (None) or empty
P256dhKeys == {"p1", "p2"}
AuthKeys == {"a1"}
CompleteInputs == Endpoints \X P256dhKeys \X AuthKeys
IncompleteInputs ==
    {<<NoneVal, "p1", "a1">>, <<"", "p1", "a1">>,
     <<Endpoint(1), NoneVal, "a1">>, <<Endpoint(1), "", "a1">>,
     <<Endpoint(1), "p1", NoneVal>>, <<Endpoint(1), "p1", "">>}
SubscriptionInputs == CompleteInputs \cup IncompleteInputs

\* Python truthiness of the str-or-None values read from the request
Truthy(v) == v # NoneVal /\ v # ""

Range(s) == {s[i] : i \in 1..Len(s)}

---------------------------------------------------------------------------
(* Subscription registry: table push_subscriptions *)

\* a row of push_subscriptions
PushSubscription(id, endpoint, p256dh, auth, user_id, is_active) ==
    [id |-> id, endpoint |-> endpoint, p256dh_key |-> p256dh,
     auth_key |-> auth, user_id |-> user_id, is_active |-> is_active]

\* faulty variant: the endpoint column without its UNIQUE constraint
endpoint_unique_ok_unconstrained(table, endpoint) == TRUE

\* the UNIQUE constraint on push_subscriptions.endpoint: may a row with this
\* endpoint be inserted into the table?
endpoint_unique_ok(table, endpoint) ==
    \A i \in 1..Len(table) : table[i].endpoint # endpoint

\* if not all([endpoint, p256dh, auth])
subscription_data_valid(endpoint, p256dh, auth) ==
    Truthy(endpoint) /\ Truthy(p256dh) /\ Truthy(auth)

\* faulty variant: the lookup filters on the endpoint only
existing_sub_any_owner(table, endpoint, user_id) ==
    LET hits == {i \in 1..Len(table) : table[i].endpoint = endpoint}
    IN  IF hits = {} THEN 0 ELSE CHOOSE i \in hits : \A j \in hits : i <= j

\* faulty variant: the lookup never finds the row
existing_sub_none(table, endpoint, user_id) == 0

\* db.query(...).filter(endpoint == endpoint, user_id == current_user.id).first():
\* the position of the first matching row, 0 for None
existing_sub(table, endpoint, user_id) ==
    LET hits == {i \in 1..Len(table) :
                    table[i].endpoint = endpoint /\ table[i].user_id = user_id}
    IN  IF hits = {} THEN 0 ELSE CHOOSE i \in hits : \A j \in hits : i <= j

\* the branch the subscribe handler takes
subscribe_branch(table, user_id, endpoint, p256dh, auth) ==
    IF ~subscription_data_valid(endpoint, p256dh, auth) THEN "invalid"
    ELSE IF existing_sub(table, endpoint, user_id) # 0 THEN "updated"
    ELSE IF endpoint_unique_ok(table, endpoint) THEN "created"
    ELSE "integrity_error"

\* faulty variant: the update branch rotates the keys and forgets is_active = True
subscribe_table_no_reactivate(table, user_id, endpoint, p256dh, auth) ==
    LET br == subscribe_branch(table, user_id, endpoint, p256dh, auth)
        k  == existing_sub(table, endpoint, user_id)
    IN  CASE br = "updated" ->
               [table EXCEPT ![k].p256dh_key = p256dh, ![k].auth_key = auth]
          [] br = "created" ->
               Append(table, PushSubscription(Len(table) + 1, endpoint, p256dh,
                                              auth, user_id, TRUE))
          [] OTHER -> table

\* the table after the handler has committed or rolled back
subscribe_table(table, user_id, endpoint, p256dh, auth) ==
    LET br == subscribe_branch(table, user_id, endpoint, p256dh, auth)
        k  == existing_sub(table, endpoint, user_id)
    IN  CASE br = "updated" ->
               [table EXCEPT ![k].p256dh_key = p256dh,
                             ![k].auth_key = auth,
                             ![k].is_active = TRUE]
          [] br = "created" ->
               Append(table, PushSubscription(Len(table) + 1, endpoint, p256dh,
                                              auth, user_id, TRUE))
          [] OTHER -> table

\* the status code of the handler's response: the HTTPException(400) raised
\* inside the try block is an Exception and is caught by the handler's own
\* except clause, which answers 500
subscribe_status(table, user_id, endpoint, p256dh, auth) ==
    LET br == subscribe_branch(table, user_id, endpoint, p256dh, auth)
    IN  IF br \in {"updated", "created"} THEN 200 ELSE 500

\* POST /api/notifications/subscribe
subscribe_to_notifications(user_id, endpoint, p256dh, auth) ==
    /\ subs' = subscribe_table(subs, user_id, endpoint, p256dh, auth)
    /\ resp' = [op |-> "subscribe",
                status |-> subscribe_status(subs, user_id, endpoint, p256dh, auth),
                detail |-> subscribe_branch(subs, user_id, endpoint, p256dh, auth)]
    /\ UNCHANGED <<notes, batch, running, jobs, current_note_index, fired, config>>

\* the worker processes that serve the handler side by side: in each the
\* lookup and the commit are separate statements on the shared database
Workers == {1, 2}

\* the locals of the handler in a worker that serves no request
IdleRequest ==
    [pc |-> "idle", user_id |-> 0, endpoint |-> NoneVal, p256dh |-> NoneVal,
     auth |-> NoneVal, found |-> 0, status |-> 0]

\* the handler in worker w up to its lookup: the validation and the query;
\* incomplete data ends the request with the 500 of the except clause
subscribe_lookup(w, user_id, endpoint, p256dh, auth) ==
    /\ req[w].pc = "idle"
    /\ req' = [req EXCEPT ![w] =
                 [pc |-> IF subscription_data_valid(endpoint, p256dh, auth)
                         THEN "looked_up" ELSE "done",
                  user_id |-> user_id, endpoint |-> endpoint,
                  p256dh |-> p256dh, auth |-> auth,
                  found |-> IF subscription_data_valid(endpoint, p256dh, auth)
                            THEN existing_sub(subs, endpoint, user_id) ELSE 0,
                  status |-> IF subscription_data_valid(endpoint, p256dh, auth)
                             THEN 0 ELSE 500]]
    /\ UNCHANGED <<subs, notes, batch, resp, running, jobs, current_note_index,
                   fired, environ, starts, caught>>

\* the rest of the handler in worker w: the row the lookup found is updated,
\* or a new row is added, and the commit runs against the table as it is now;
\* an IntegrityError of the commit is rolled back and answered 500
subscribe_commit(w) ==
    /\ req[w].pc = "looked_up"
    /\ LET r == req[w]
           ok == r.found # 0 \/ endpoint_unique_ok(subs, r.endpoint)
       IN  /\ subs' = IF r.found # 0
                      THEN [subs EXCEPT ![r.found].p256dh_key = r.p256dh,
                                        ![r.found].auth_key = r.auth,
                                        ![r.found].is_active = TRUE]
                      ELSE IF ok
                      THEN Append(subs, PushSubscription(Len(subs) + 1, r.endpoint,
                                                         r.p256dh, r.auth,
                                                         r.user_id, TRUE))
                      ELSE subs
           /\ req' = [req EXCEPT ![w].pc = "done",
                                 ![w].status = IF ok THEN 200 ELSE 500]
    /\ UNCHANGED <<notes, batch, resp, running, jobs, current_note_index,
                   fired, environ, starts, caught>>

---------------------------------------------------------------------------
(* Content source: table notes *)

\* what summarize_note(content) can return
Summaries == {NoneVal, "", "s"}

\* what the column ai_summary can hold: None from create_note, or a value
\* generate_summary_task stored
StoredSummaries == {v \in Summaries : v = NoneVal \/ Truthy(v)}

\* a row of notes; the owner alternates with the position
Note(id, ai_summary) ==
    [id |-> id, ai_summary |-> ai_summary, user_id |-> ((id - 1) % NumUsers) + 1]

NoteTables ==
    UNION {{[i \in 1..n |-> Note(i, f[i])] : f \in [1..n -> StoredSummaries]} :
           n \in 0..MaxNotes}

\* POST /api/notes: the new note has no summary yet
create_note ==
    /\ Len(notes) < MaxNotes
    /\ notes' = Append(notes, Note(Len(notes) + 1, NoneVal))
    /\ UNCHANGED <<subs, batch, resp, running, jobs, current_note_index, fired, config>>

\* faulty variant: every summary that is not None is stored
generate_summary_task_unguarded(note_id, summary) ==
    /\ note_id \in 1..Len(notes)
    /\ notes' = IF summary # NoneVal
                THEN [notes EXCEPT ![note_id].ai_summary = summary]
                ELSE notes
    /\ UNCHANGED <<subs, batch, resp, running, jobs, current_note_index, fired, config>>

\* the background task of create_note and update_note: `if summary:` stores
\* the summary of the note, anything else leaves the row as it is
generate_summary_task(note_id, summary) ==
    /\ note_id \in 1..Len(notes)
    /\ notes' = IF Truthy(summary)
                THEN [notes EXCEPT ![note_id].ai_summary = summary]
                ELSE notes
    /\ UNCHANGED <<subs, batch, resp, running, jobs, current_note_index, fired, config>>

\* Note.ai_summary.isnot(None)
has_ai_summary(note) == note.ai_summary # NoneVal

\* db.query(Note).filter(Note.ai_summary.isnot(None)).all()
notes_with_summary(table) == SelectSeq(table, has_ai_summary)

\* db.query(Note).filter(Note.user_id == uid, Note.ai_summary.isnot(None)).first():
\* the id of the first matching note, 0 for None
first_note_of(table, user_id) ==
    LET own(n) == n.user_id = user_id /\ has_ai_summary(n)
        hits == SelectSeq(table, own)
    IN  IF hits = <<>> THEN 0 ELSE hits[1].id

---------------------------------------------------------------------------
(* Configuration: the VAPID keys of PushNotificationService *)

EnvNames == {"VAPID_PRIVATE_KEY", "VAPID_PUBLIC_KEY"}

\* the environments of the process: each key is set by the operator or absent
Environs == [EnvNames -> {NoneVal, "configured"}]

ConfiguredEnviron == [name \in EnvNames |-> "configured"]

\* the keys written in the source, used when the environment has none
DefaultPrivateKey == "CJxrXYFUOEzkYCKEqD6DLapI9Qwmu-1NA7L36u8caLQ"

DefaultPublicKey ==
    "BLlpxAkzak5Y9Bkp6wU_Q3TnXDCSjJB1yC0_sEfgxHYRMrzJhngxZU8vJ3IXNmFx2Ls8h7NaHwpmwbhPZeVXPM0"

\* faulty variant: the default is ignored, an absent variable reads as None
getenv_no_default(env, name, default) == env[name]

\* os.getenv(name, default)
getenv(env, name, default) ==
    IF env[name] # NoneVal THEN env[name] ELSE default

\* the module-level keys, read when push_service is imported
VAPID_PRIVATE_KEY == getenv(environ, "VAPID_PRIVATE_KEY", DefaultPrivateKey)

VAPID_PUBLIC_KEY == getenv(environ, "VAPID_PUBLIC_KEY", DefaultPublicKey)

\* PushNotificationService.__init__: the keys the service sends with
vapid_private_key == VAPID_PRIVATE_KEY

vapid_public_key == VAPID_PUBLIC_KEY

---------------------------------------------------------------------------
(* Delivery pipeline: PushNotificationService._send_to_subscription *)

StatusCodes == {200, 201, 400, 404, 410, 413, 429, 500, 503}
NetworkFailures == {"timeout", "refused"}

\* what the outbound request to the push service can end in
HttpOutcomes ==
    {[net |-> "ok", status |-> s] : s \in StatusCodes}
    \cup {[net |-> f, status |-> 0] : f \in NetworkFailures}

\* the call webpush(...): returns on a 2xx answer, raises WebPushException
\* carrying the response on any other answer, and lets the HTTP client's own
\* exception through when there is no answer. truthy is bool(response) of the
\* response object carried by the exception (for requests.Response that is
\* Response.ok, so False for every status >= 400; a test double is True).
webpush(http, truthy) ==
    IF http.net # "ok"
    THEN [kind |-> "Exception", has_response |-> FALSE, status_code |-> 0,
          truthy |-> FALSE]
    ELSE IF http.status \in 200..299
    THEN [kind |-> "return", has_response |-> TRUE, status_code |-> http.status,
          truthy |-> truthy]
    ELSE [kind |-> "WebPushException", has_response |-> TRUE,
          status_code |-> http.status, truthy |-> truthy]

\* the outcome the design assigns to the end of an outbound request
DeliveryOutcome(http) ==
    IF http.net # "ok" THEN "TransientFailure"
    ELSE IF http.status \in 200..299 THEN "Delivered"
    ELSE IF http.status \in {400, 404, 410, 413} THEN "PermanentFailure"
    ELSE "TransientFailure"

\* the status codes of the except clause
InvalidSubscriptionCodes == {400, 404, 410, 413}

\* _send_to_subscription: "True", "False", or "raise" when it raises
send_to_subscription(w) ==
    IF w.kind = "return" THEN "True"
    ELSE IF w.kind = "WebPushException"
    THEN IF (w.has_response /\ w.truthy)
            /\ w.status_code \in InvalidSubscriptionCodes
         THEN "False"
         ELSE "raise"
    ELSE "raise"

---------------------------------------------------------------------------
(* Batch dispatcher: send_notification_to_all / send_notification_to_user *)

\* "all" is the call of send_notification_to_all made by the daily job,
\* "user" the call of send_notification_to_user made by the test endpoint
Slots == {"all", "user"}

IdleBatch ==
    [pc |-> "idle", user_id |-> 0, note_id |-> 0, subscriptions |-> <<>>,
     attempts |-> <<>>, successful_sends |-> 0, failed_sends |-> 0,
     inactive_subscriptions |-> <<>>, result |-> <<0, 0>>]

\* faulty variant: the query of one user forgets the filter on is_active
active_subscriptions_user_any_flag(table, user_id) ==
    LET wanted(r) == IF user_id = 0 THEN r.is_active ELSE r.user_id = user_id
        rows == SelectSeq(table, wanted)
    IN  [i \in 1..Len(rows) |-> rows[i].id]

\* faulty variant: the filter on user_id is missing
active_subscriptions_any_owner(table, user_id) ==
    LET wanted(r) == r.is_active
        rows == SelectSeq(table, wanted)
    IN  [i \in 1..Len(rows) |-> rows[i].id]

\* the query at the head of either sender: the ids of the rows with
\* is_active == True, of this user when user_id is not 0
active_subscriptions(table, user_id) ==
    LET wanted(r) == r.is_active /\ (user_id = 0 \/ r.user_id = user_id)
        rows == SelectSeq(table, wanted)
    IN  [i \in 1..Len(rows) |-> rows[i].id]

\* faulty variant: the collected rows are deleted
quarantine_delete(table, ids) ==
    LET kept(r) == r.id \notin ids
    IN  SelectSeq(table, kept)

\* faulty variant: the update flips is_active instead of clearing it
quarantine_toggle(table, ids) ==
    [i \in 1..Len(table) |->
        IF table[i].id \in ids THEN [table[i] EXCEPT !.is_active = ~@]
        ELSE table[i]]

\* query(...).filter(id.in_(ids)).update({"is_active": False}); commit
quarantine(table, ids) ==
    [i \in 1..Len(table) |->
        IF table[i].id \in ids THEN [table[i] EXCEPT !.is_active = FALSE]
        ELSE table[i]]

\* faulty variant: the id is collected whatever the send returned
loop_body_collect_all(b, id, ret) ==
    IF ret = "True"
    THEN [b EXCEPT !.successful_sends = @ + 1,
                   !.inactive_subscriptions = Append(@, id)]
    ELSE [b EXCEPT !.failed_sends = @ + 1,
                   !.inactive_subscriptions = Append(@, id)]

\* faulty variant: a failed send is counted and its id is not collected
loop_body_no_collect(b, id, ret) ==
    IF ret = "True"
    THEN [b EXCEPT !.successful_sends = @ + 1]
    ELSE [b EXCEPT !.failed_sends = @ + 1]

\* one pass of the for loop over active_subscriptions
loop_body(b, id, ret) ==
    IF ret = "True"
    THEN [b EXCEPT !.successful_sends = @ + 1]
    ELSE [b EXCEPT !.failed_sends = @ + 1,
                   !.inactive_subscriptions = Append(@, id)]

\* faulty variant: no early return on an empty result
send_begin_no_early_return(table, user_id, note_id) ==
    [IdleBatch EXCEPT !.pc = "sending",
                      !.user_id = user_id,
                      !.note_id = note_id,
                      !.subscriptions = active_subscriptions(table, user_id)]

\* the sender up to its first delivery: the query and the early return
send_begin(table, user_id, note_id) ==
    LET loaded == active_subscriptions(table, user_id)
    IN  [IdleBatch EXCEPT !.pc = IF loaded = <<>> THEN "returned" ELSE "sending",
                          !.user_id = user_id,
                          !.note_id = note_id,
                          !.subscriptions = loaded]

\* faulty variant: no try/except in the loop, an exception of one attempt
\* leaves the sender
send_step_propagates(slot) ==
    /\ batch[slot].pc = "sending"
    /\ Len(batch[slot].attempts) < Len(batch[slot].subscriptions)
    /\ \E http \in HttpOutcomes, truthy \in BOOLEAN :
         LET b   == batch[slot]
             id  == b.subscriptions[Len(b.attempts) + 1]
             ret == send_to_subscription(webpush(http, truthy))
             b1  == IF ret = "raise" THEN [b EXCEPT !.pc = "raised"]
                    ELSE loop_body(b, id, ret)
         IN  batch' = [batch EXCEPT ![slot] =
                          [b1 EXCEPT !.attempts =
                              Append(@, [id |-> id, ret |-> ret,
                                         outcome |-> DeliveryOutcome(http),
                                         key |-> vapid_private_key])]]
    /\ UNCHANGED <<subs, notes, resp, running, jobs, current_note_index, fired, config>>

\* faulty variant: a failed subscription is marked inactive at once, inside
\* the loop, as well as collected
send_step_eager_update(slot) ==
    /\ batch[slot].pc = "sending"
    /\ Len(batch[slot].attempts) < Len(batch[slot].subscriptions)
    /\ \E http \in HttpOutcomes, truthy \in BOOLEAN :
         LET b   == batch[slot]
             id  == b.subscriptions[Len(b.attempts) + 1]
             ret == send_to_subscription(webpush(http, truthy))
             b1  == loop_body(b, id, ret)
         IN  /\ batch' = [batch EXCEPT ![slot] =
                             [b1 EXCEPT !.attempts =
                                 Append(@, [id |-> id, ret |-> ret,
                                            outcome |-> DeliveryOutcome(http),
                                            key |-> vapid_private_key])]]
             /\ subs' = IF ret = "True" THEN subs ELSE quarantine(subs, {id})
    /\ UNCHANGED <<notes, resp, running, jobs, current_note_index, fired, config>>

\* the delivery attempt to the next loaded subscription
send_step(slot) ==
    /\ batch[slot].pc = "sending"
    /\ Len(batch[slot].attempts) < Len(batch[slot].subscriptions)
    /\ \E http \in HttpOutcomes, truthy \in BOOLEAN :
         LET b   == batch[slot]
             id  == b.subscriptions[Len(b.attempts) + 1]
             ret == send_to_subscription(webpush(http, truthy))
             b1  == loop_body(b, id, ret)
         IN  batch' = [batch EXCEPT ![slot] =
                          [b1 EXCEPT !.attempts =
                              Append(@, [id |-> id, ret |-> ret,
                                         outcome |-> DeliveryOutcome(http),
                                         key |-> vapid_private_key])]]
    /\ UNCHANGED <<subs, notes, resp, running, jobs, current_note_index, fired, config>>

\* faulty variant: the counts are returned and the update is left out
send_finish_no_update(slot) ==
    /\ batch[slot].pc = "sending"
    /\ Len(batch[slot].attempts) = Len(batch[slot].subscriptions)
    /\ batch' = [batch EXCEPT ![slot].pc = "returned",
                              ![slot].result = <<batch[slot].successful_sends,
                                                 batch[slot].failed_sends>>]
    /\ UNCHANGED <<subs, notes, resp, running, jobs, current_note_index, fired, config>>

\* after the loop: mark the failed subscriptions inactive and return the counts
send_finish(slot) ==
    /\ batch[slot].pc = "sending"
    /\ Len(batch[slot].attempts) = Len(batch[slot].subscriptions)
    /\ subs' = IF batch[slot].inactive_subscriptions # <<>>
               THEN quarantine(subs, Range(batch[slot].inactive_subscriptions))
               ELSE subs
    /\ batch' = [batch EXCEPT ![slot].pc = "returned",
                              ![slot].result = <<batch[slot].successful_sends,
                                                 batch[slot].failed_sends>>]
    /\ UNCHANGED <<notes, resp, running, jobs, current_note_index, fired, config>>

\* what _send_to_subscription can do
Rets == {"True", "False", "raise"}

RECURSIVE for_loop(_, _, _)
\* the for loop from its i-th pass on, rets giving what _send_to_subscription
\* does for each subscription id
for_loop(b, i, rets) ==
    IF i > Len(b.subscriptions) THEN b
    ELSE for_loop(loop_body(b, b.subscriptions[i], rets[b.subscriptions[i]]),
                  i + 1, rets)

\* a sender run from its query to its return: the counts it returns, the ids
\* it collected and the table it leaves
run_sender(table, user_id, rets) ==
    LET b0 == send_begin(table, user_id, 0)
        b1 == IF b0.pc = "returned" THEN b0 ELSE for_loop(b0, 1, rets)
    IN  [result   |-> <<b1.successful_sends, b1.failed_sends>>,
         inactive |-> b1.inactive_subscriptions,
         table    |-> IF b1.inactive_subscriptions # <<>>
                      THEN quarantine(table, Range(b1.inactive_subscriptions))
                      ELSE table]

send_notification_to_all(table, rets) == run_sender(table, 0, rets)

send_notification_to_user(table, user_id, rets) == run_sender(table, user_id, rets)

\* the sender whose query raises (the database cannot be reached): nothing
\* in the sender catches it, the exception goes to the caller
send_begin_error(user_id, note_id) ==
    [IdleBatch EXCEPT !.pc = "raised", !.user_id = user_id, !.note_id = note_id]

\* after the loop: the update or its commit raises; nothing in the sender
\* catches it, the transaction is not committed and the caller gets the
\* exception
send_finish_error(slot) ==
    /\ batch[slot].pc = "sending"
    /\ Len(batch[slot].attempts) = Len(batch[slot].subscriptions)
    /\ batch[slot].inactive_subscriptions # <<>>
    /\ batch' = [batch EXCEPT ![slot].pc = "raised"]
    /\ UNCHANGED <<subs, notes, resp, running, jobs, current_note_index, fired, config>>

---------------------------------------------------------------------------
(* Ad-hoc test send: POST /api/notifications/test *)

\* the handler up to the first delivery; a missing note raises
\* HTTPException(404) inside the try block, which the handler's own
\* except Exception turns into a 500
test_notification(user_id) ==
    /\ batch["user"].pc = "idle"
    /\ LET note_id == first_note_of(notes, user_id)
       IN  IF note_id = 0
           THEN /\ resp' = [op |-> "test", status |-> 500, detail |-> "no_notes"]
                /\ UNCHANGED batch
           ELSE /\ batch' = [batch EXCEPT !["user"] =
                                send_begin(subs, user_id, note_id)]
                /\ UNCHANGED resp
    /\ UNCHANGED <<subs, notes, running, jobs, current_note_index, fired, config>>

\* the handler whose call of send_notification_to_user raises at its query
test_notification_load_error(user_id) ==
    /\ batch["user"].pc = "idle"
    /\ first_note_of(notes, user_id) # 0
    /\ batch' = [batch EXCEPT !["user"] =
                    send_begin_error(user_id, first_note_of(notes, user_id))]
    /\ UNCHANGED <<subs, notes, resp, running, jobs, current_note_index, fired, config>>

\* faulty variant: the exception is swallowed and the handler answers 200
test_notification_except_ok ==
    /\ batch["user"].pc = "raised"
    /\ resp' = [op |-> "test", status |-> 200, detail |-> "sent"]
    /\ batch' = [batch EXCEPT !["user"] = IdleBatch]
    /\ UNCHANGED <<subs, notes, running, jobs, current_note_index, fired, config>>

\* except Exception of the handler: HTTPException(500)
test_notification_except ==
    /\ batch["user"].pc = "raised"
    /\ resp' = [op |-> "test", status |-> 500, detail |-> "error"]
    /\ batch' = [batch EXCEPT !["user"] = IdleBatch]
    /\ UNCHANGED <<subs, notes, running, jobs, current_note_index, fired, config>>

\* the handler's return once send_notification_to_user has returned
test_notification_return ==
    /\ batch["user"].pc = "returned"
    /\ resp' = [op |-> "test", status |-> 200, detail |-> "sent"]
    /\ batch' = [batch EXCEPT !["user"] = IdleBatch]
    /\ UNCHANGED <<subs, notes, running, jobs, current_note_index, fired, config>>

---------------------------------------------------------------------------
(* Scheduler: NotificationScheduler *)

\* faulty variant: the job is added under a fresh id at every call
add_job_fresh(registered, id, replace_existing) == Append(registered, id)

\* scheduler.add_job(..., id=id, replace_existing=...): a job with a known id
\* replaces the registered one; without replace_existing the call raises and
\* the registered jobs stay
add_job(registered, id, replace_existing) ==
    IF id \in Range(registered) THEN registered ELSE Append(registered, id)

\* start(): add_job(id='daily_notification', replace_existing=True), then
\* scheduler.start()
start ==
    /\ ~running
    /\ starts < MaxStarts
    /\ jobs' = add_job(jobs, "daily_notification", TRUE)
    /\ running' = TRUE
    /\ starts' = starts + 1
    /\ UNCHANGED <<subs, notes, batch, resp, current_note_index, fired,
                   environ, caught, req>>

\* faulty variant: the shutdown drops the batch of the firing in flight
stop_cancels ==
    /\ running' = FALSE
    /\ batch' = [batch EXCEPT !["all"] = IdleBatch]
    /\ UNCHANGED <<subs, notes, resp, jobs, current_note_index, fired, config>>

\* stop(): shutdown() when the scheduler is running
stop ==
    /\ running' = FALSE
    /\ UNCHANGED <<subs, notes, batch, resp, jobs, current_note_index, fired, config>>

\* faulty variant: the cursor is advanced before it is used
selected_index_off_by_one(index, n) == (index + 1) % n

\* round-robin selection: the position (from 0) of the selected candidate
selected_index(index, n) == index % n

\* faulty variant: the cursor advances before the test for an empty result
send_daily_notification_no_skip ==
    /\ running
    /\ "daily_notification" \in Range(jobs)
    /\ batch["all"].pc = "idle"
    /\ Len(fired) < MaxFirings
    /\ current_note_index' = current_note_index + 1
    /\ LET candidates == notes_with_summary(notes)
           n == Len(candidates)
       IN  IF n = 0
           THEN /\ fired' = Append(fired, [n |-> 0, index |-> 0, note_id |-> 0])
                /\ UNCHANGED batch
           ELSE LET k == selected_index(current_note_index, n)
                    selected_note == candidates[k + 1]
                IN  /\ fired' = Append(fired, [n |-> n, index |-> k,
                                               note_id |-> selected_note.id])
                    /\ batch' = [batch EXCEPT !["all"] =
                                    send_begin(subs, 0, selected_note.id)]
    /\ UNCHANGED <<subs, notes, resp, running, jobs, config>>

\* a firing of the daily job, up to the first delivery of its batch
send_daily_notification ==
    /\ running
    /\ "daily_notification" \in Range(jobs)
    /\ batch["all"].pc = "idle"
    /\ Len(fired) < MaxFirings
    /\ LET candidates == notes_with_summary(notes)
           n == Len(candidates)
       IN  IF n = 0
           THEN /\ fired' = Append(fired, [n |-> 0, index |-> 0, note_id |-> 0])
                /\ UNCHANGED <<batch, current_note_index>>
           ELSE LET k == selected_index(current_note_index, n)
                    selected_note == candidates[k + 1]
                IN  /\ current_note_index' = current_note_index + 1
                    /\ fired' = Append(fired, [n |-> n, index |-> k,
                                               note_id |-> selected_note.id])
                    /\ batch' = [batch EXCEPT !["all"] =
                                    send_begin(subs, 0, selected_note.id)]
    /\ UNCHANGED <<subs, notes, resp, running, jobs, config>>

\* a firing whose query of the notes raises: the except clause logs the
\* error before anything is selected, finally closes the session
send_daily_notification_notes_error ==
    /\ running
    /\ "daily_notification" \in Range(jobs)
    /\ batch["all"].pc = "idle"
    /\ Len(fired) < MaxFirings
    /\ fired' = Append(fired, [n |-> 0, index |-> 0, note_id |-> 0])
    /\ caught' = caught \cup {Len(fired) + 1}
    /\ UNCHANGED <<subs, notes, batch, resp, running, jobs, current_note_index,
                   environ, starts, req>>

\* a firing that selects its note and whose call of send_notification_to_all
\* raises at its query
send_daily_notification_load_error ==
    /\ running
    /\ "daily_notification" \in Range(jobs)
    /\ batch["all"].pc = "idle"
    /\ Len(fired) < MaxFirings
    /\ LET candidates == notes_with_summary(notes)
           n == Len(candidates)
           k == selected_index(current_note_index, n)
       IN  /\ n > 0
           /\ current_note_index' = current_note_index + 1
           /\ fired' = Append(fired, [n |-> n, index |-> k,
                                      note_id |-> candidates[k + 1].id])
           /\ batch' = [batch EXCEPT !["all"] =
                           send_begin_error(0, candidates[k + 1].id)]
    /\ UNCHANGED <<subs, notes, resp, running, jobs, config>>

\* faulty variant: the except clause takes the cursor back, so that the next
\* firing selects the same note again
send_daily_notification_except_rewind ==
    /\ batch["all"].pc = "raised"
    /\ batch' = [batch EXCEPT !["all"] = IdleBatch]
    /\ caught' = caught \cup {Len(fired)}
    /\ current_note_index' = current_note_index - 1
    /\ UNCHANGED <<subs, notes, resp, running, jobs, fired, environ, starts, req>>

\* faulty variant: the exception leaves the firing and takes the job with it
send_daily_notification_except_fatal ==
    /\ batch["all"].pc = "raised"
    /\ batch' = [batch EXCEPT !["all"] = IdleBatch]
    /\ caught' = caught \cup {Len(fired)}
    /\ jobs' = <<>>
    /\ UNCHANGED <<subs, notes, resp, running, current_note_index, fired,
                   environ, starts, req>>

\* except Exception of the firing: the error is logged, finally closes the
\* session, the firing ends
send_daily_notification_except ==
    /\ batch["all"].pc = "raised"
    /\ batch' = [batch EXCEPT !["all"] = IdleBatch]
    /\ caught' = caught \cup {Len(fired)}
    /\ UNCHANGED <<subs, notes, resp, running, jobs, current_note_index, fired,
                   environ, starts, req>>

\* the end of a firing: send_notification_to_all has returned, db.close()
send_daily_notification_return ==
    /\ batch["all"].pc = "returned"
    /\ batch' = [batch EXCEPT !["all"] = IdleBatch]
    /\ UNCHANGED <<subs, notes, resp, running, jobs, current_note_index, fired, config>>

---------------------------------------------------------------------------
(* Specifications *)

\* tables of notes of the registry-and-dispatch specification
FewNotes ==
    {t \in NoteTables : Len(t) <= 1 /\ \A i \in 1..Len(t) : t[i].ai_summary = "s"}

Init ==
    /\ subs = <<>>
    /\ notes \in FewNotes
    /\ batch = [s \in Slots |-> IdleBatch]
    /\ resp = [op |-> "none", status |-> 0, detail |-> ""]
    /\ running = FALSE
    /\ jobs = <<>>
    /\ current_note_index = 0
    /\ fired = <<>>
    /\ environ = ConfiguredEnviron
    /\ starts = 0
    /\ caught = {}
    /\ req = [w \in Workers |-> IdleRequest]

\* registry and dispatch: every handler, one batch in flight at a time
Next ==
    \/ \E u \in Users, in \in SubscriptionInputs :
          subscribe_to_notifications(u, in[1], in[2], in[3])
    \/ batch["all"].pc = "idle" /\ \E u \in Users : test_notification(u)
    \/ test_notification_return
    \/ \E slot \in Slots : send_step(slot)
    \/ \E slot \in Slots : send_finish(slot)
    \/ start
    \/ batch["user"].pc = "idle" /\ send_daily_notification
    \/ send_daily_notification_return

Spec == Init /\ [][Next]_vars

InitSched ==
    /\ subs = <<>>
    /\ notes \in NoteTables
    /\ batch = [s \in Slots |-> IdleBatch]
    /\ resp = [op |-> "none", status |-> 0, detail |-> ""]
    /\ running = FALSE
    /\ jobs = <<>>
    /\ current_note_index = 0
    /\ fired = <<>>
    /\ environ \in Environs
    /\ starts = 0
    /\ caught = {}
    /\ req = [w \in Workers |-> IdleRequest]

\* the scheduler over every table of notes, with one browser subscribing
NextSched ==
    \/ subscribe_to_notifications(1, Endpoint(1), "p1", "a1")
    \/ send_step("all")
    \/ send_finish("all")
    \/ start
    \/ stop
    \/ send_daily_notification
    \/ send_daily_notification_return

SpecSched == InitSched /\ [][NextSched]_vars

\* the coroutine of a firing that started keeps running on the event loop:
\* each of its steps is taken once it is possible
SpecSchedFair ==
    /\ SpecSched
    /\ WF_vars(send_step("all"))
    /\ WF_vars(send_finish("all"))
    /\ WF_vars(send_daily_notification_return)

\* one note with a summary, owned by user 1
OneNote == {t \in FewNotes : Len(t) = 1}

InitFail ==
    /\ subs = <<>>
    /\ notes \in OneNote
    /\ batch = [s \in Slots |-> IdleBatch]
    /\ resp = [op |-> "none", status |-> 0, detail |-> ""]
    /\ running = FALSE
    /\ jobs = <<>>
    /\ current_note_index = 0
    /\ fired = <<>>
    /\ environ = ConfiguredEnviron
    /\ starts = 0
    /\ caught = {}
    /\ req = [w \in Workers |-> IdleRequest]

\* the daily job with a database that can fail at each of its queries
NextFiring ==
    \/ subscribe_to_notifications(1, Endpoint(1), "p1", "a1")
    \/ start
    \/ stop
    \/ send_daily_notification
    \/ send_daily_notification_notes_error
    \/ send_daily_notification_load_error
    \/ send_step("all")
    \/ send_finish("all")
    \/ send_finish_error("all")
    \/ send_daily_notification_return
    \/ send_daily_notification_except

\* the trigger fires the job while the scheduler runs, and the coroutine of a
\* firing keeps running on the event loop
SpecFiringFair ==
    /\ InitFail /\ [][NextFiring]_vars
    /\ WF_vars(send_daily_notification \/ send_daily_notification_notes_error
                 \/ send_daily_notification_load_error)
    /\ WF_vars(send_step("all"))
    /\ WF_vars(send_finish("all") \/ send_finish_error("all"))
    /\ WF_vars(send_daily_notification_return)
    /\ WF_vars(send_daily_notification_except)

InitCursor ==
    /\ subs = <<>>
    /\ notes \in NoteTables
    /\ batch = [s \in Slots |-> IdleBatch]
    /\ resp = [op |-> "none", status |-> 0, detail |-> ""]
    /\ running = FALSE
    /\ jobs = <<>>
    /\ current_note_index = 0
    /\ fired = <<>>
    /\ environ = ConfiguredEnviron
    /\ starts = 0
    /\ caught = {}
    /\ req = [w \in Workers |-> IdleRequest]

\* the daily job over every table of notes, with a database that can fail
SpecCursor == InitCursor /\ [][NextFiring]_vars

\* both callers of the senders with a database that can fail at each query
NextFail ==
    \/ subscribe_to_notifications(1, Endpoint(1), "p1", "a1")
    \/ start
    \/ \E u \in Users : test_notification(u)
    \/ \E u \in Users : test_notification_load_error(u)
    \/ test_notification_return
    \/ test_notification_except
    \/ send_daily_notification
    \/ send_daily_notification_load_error
    \/ \E slot \in Slots : send_step(slot)
    \/ \E slot \in Slots : send_finish(slot)
    \/ \E slot \in Slots : send_finish_error(slot)
    \/ send_daily_notification_return
    \/ send_daily_notification_except

SpecFail == InitFail /\ [][NextFail]_vars

\* tables with two active rows: both of user 1, or one of each user
TwoRows ==
    {<<PushSubscription(1, Endpoint(1), "p1", "a1", 1, TRUE),
       PushSubscription(2, Endpoint(2), "p1", "a1", u, TRUE)>> : u \in Users}

InitConc ==
    /\ subs \in TwoRows
    /\ notes \in OneNote
    /\ batch = [s \in Slots |-> IdleBatch]
    /\ resp = [op |-> "none", status |-> 0, detail |-> ""]
    /\ running = FALSE
    /\ jobs = <<>>
    /\ current_note_index = 0
    /\ fired = <<>>
    /\ environ = ConfiguredEnviron
    /\ starts = 0
    /\ caught = {}
    /\ req = [w \in Workers |-> IdleRequest]

\* a test send and a firing in flight together, their steps interleaved
NextConc ==
    \/ start
    \/ \E u \in Users : test_notification(u)
    \/ test_notification_return
    \/ send_daily_notification
    \/ send_daily_notification_return
    \/ \E slot \in Slots : send_step(slot)
    \/ \E slot \in Slots : send_finish(slot)

SpecConc == InitConc /\ [][NextConc]_vars

\* two workers, each serving one subscribe request
NextUpsert ==
    \/ \E w \in Workers, u \in Users, in \in SubscriptionInputs :
          subscribe_lookup(w, u, in[1], in[2], in[3])
    \/ \E w \in Workers : subscribe_commit(w)

SpecUpsert == Init /\ [][NextUpsert]_vars

InitNotes ==
    /\ subs = <<>>
    /\ notes = <<>>
    /\ batch = [s \in Slots |-> IdleBatch]
    /\ resp = [op |-> "none", status |-> 0, detail |-> ""]
    /\ running = FALSE
    /\ jobs = <<>>
    /\ current_note_index = 0
    /\ fired = <<>>
    /\ environ = ConfiguredEnviron
    /\ starts = 0
    /\ caught = {}
    /\ req = [w \in Workers |-> IdleRequest]

\* the daily job over a table of notes that grows and gets its summaries
NextNotes ==
    \/ create_note
    \/ \E id \in 1..MaxNotes, summary \in Summaries :
          generate_summary_task(id, summary)
    \/ subscribe_to_notifications(1, Endpoint(1), "p1", "a1")
    \/ start
    \/ send_daily_notification
    \/ send_step("all")
    \/ send_finish("all")
    \/ send_daily_notification_return

SpecNotes == InitNotes /\ [][NextNotes]_vars

---------------------------------------------------------------------------
(* Vocabulary of the properties *)

\* the step in which a sender leaves its loop, updates the table and returns
Finished(slot) == batch[slot].pc = "sending" /\ batch'[slot].pc = "returned"

\* the step in which a sender is called
Called(slot) == batch[slot].pc = "idle" /\ batch'[slot].pc # "idle"

\* the ids a batch attempted with the given outcome
AttemptedWith(b, outcome) ==
    {b.attempts[k].id : k \in {j \in 1..Len(b.attempts) : b.attempts[j].outcome = outcome}}

HasRow(table, endpoint, user_id) ==
    \E i \in 1..Len(table) :
        table[i].endpoint = endpoint /\ table[i].user_id = user_id

RowsOf(table, endpoint, user_id) ==
    {i \in 1..Len(table) :
        table[i].endpoint = endpoint /\ table[i].user_id = user_id}

\* the outcome the dispatcher sees for a result of _send_to_subscription
OutcomeSeen(ret) ==
    CASE ret = "True" -> "Delivered"
      [] ret = "False" -> "PermanentFailure"
      [] OTHER -> "TransientFailure"

---------------------------------------------------------------------------
(* Properties *)

\* C1: in the step that ends a batch, the only rows switched from active to
\* inactive are rows whose delivery attempt in this batch ended in
\* PermanentFailure; a row whose attempt ended in TransientFailure keeps its flag.
C1_OnlyPermanentQuarantined ==
    [][\A slot \in Slots :
          Finished(slot) =>
             \A i \in 1..Len(subs) :
                (subs[i].is_active /\ ~subs'[i].is_active) =>
                   subs[i].id \in AttemptedWith(batch[slot], "PermanentFailure")]_vars

\* C2: when send_notification_to_all ends a batch of N loaded subscriptions of
\* which K attempts were PermanentFailure and the others Delivered, it returns
\* (N-K, K), the K rows are inactive afterwards, the N-K delivered rows are
\* active, and no other row changes.
C2_CountsAndQuarantine ==
    [][(/\ Finished("all")
        /\ \A k \in 1..Len(batch["all"].attempts) :
              batch["all"].attempts[k].outcome \in {"Delivered", "PermanentFailure"})
       => LET b == batch["all"]
              N == Len(b.subscriptions)
              perm == AttemptedWith(b, "PermanentFailure")
              K == Cardinality(perm)
          IN  /\ batch'["all"].result = <<N - K, K>>
              /\ Len(subs') = Len(subs)
              /\ \A i \in 1..Len(subs) :
                    IF subs[i].id \in perm THEN ~subs'[i].is_active
                    ELSE IF subs[i].id \in Range(b.subscriptions)
                    THEN subs'[i].is_active /\ subs'[i] = subs[i]
                    ELSE subs'[i] = subs[i]]_vars

C2_Witness ==
    /\ batch["all"].pc = "returned"
    /\ Len(batch["all"].subscriptions) = 2
    /\ batch["all"].result = <<1, 1>>
    /\ AttemptedWith(batch["all"], "PermanentFailure") = {1}
    /\ AttemptedWith(batch["all"], "Delivered") = {2}
    /\ ~subs[1].is_active
    /\ subs[2].is_active

\* C3: every delivery attempt of a batch is classified by _send_to_subscription
\* as the design says: Delivered for a 2xx answer, PermanentFailure for 400,
\* 404, 410 and 413, TransientFailure for every other answer and for a request
\* that got no answer, the three being told apart by the dispatcher.
C3_Classification ==
    \A slot \in Slots :
        \A k \in 1..Len(batch[slot].attempts) :
            OutcomeSeen(batch[slot].attempts[k].ret)
                = batch[slot].attempts[k].outcome

\* C4: a sender called when no relevant subscription is active returns (0, 0)
\* at once, with no delivery attempt, and leaves the table as it is.
C4_EmptyBatch ==
    [][\A slot \in Slots :
          /\ (Called(slot)
              /\ \A i \in 1..Len(subs) :
                    ~(subs[i].is_active
                      /\ (slot = "all" \/ subs[i].user_id = batch'[slot].user_id)))
             => /\ batch'[slot].pc = "returned"
                /\ batch'[slot].result = <<0, 0>>
                /\ batch'[slot].attempts = <<>>
                /\ batch'[slot].inactive_subscriptions = <<>>
                /\ subs' = subs
          /\ (batch[slot].pc = "returned" /\ batch[slot].subscriptions = <<>>)
             => /\ batch[slot].attempts = <<>>
                /\ batch'[slot].pc \in {"returned", "idle"}
                /\ (batch'[slot].pc = "idle" => subs' = subs)]_vars

C4_Witness ==
    /\ batch["user"].pc = "returned"
    /\ batch["user"].subscriptions = <<>>
    /\ batch["user"].result = <<0, 0>>
    /\ \E i \in 1..Len(subs) : subs[i].user_id = batch["user"].user_id

\* C5: the table never holds two rows with the same endpoint and owner, and in
\* every table reached a subscribe call for an endpoint and owner that have a
\* row is answered by an update of that row: no row is added.
C5_UpsertIdempotent ==
    /\ \A e \in Endpoints, u \in Users : Cardinality(RowsOf(subs, e, u)) <= 1
    /\ \A u \in Users, e \in Endpoints, p \in P256dhKeys, a \in AuthKeys :
          HasRow(subs, e, u)
          => LET after == subscribe_table(subs, u, e, p, a)
             IN  /\ Len(after) = Len(subs)
                 /\ RowsOf(after, e, u) = RowsOf(subs, e, u)
                 /\ subscribe_branch(subs, u, e, p, a) = "updated"
                 /\ subscribe_status(subs, u, e, p, a) = 200

C5_Witness ==
    /\ resp.op = "subscribe"
    /\ resp.detail = "updated"
    /\ Len(subs) = 1
    /\ subs[1].p256dh_key = "p2"

\* C6: no two rows of the table have the same endpoint, whoever owns them.
C6_EndpointUnique ==
    \A i, j \in 1..Len(subs) : subs[i].endpoint = subs[j].endpoint => i = j

C6_Witness ==
    /\ resp.op = "subscribe"
    /\ resp.detail = "integrity_error"
    /\ Len(subs) = 2
    /\ subs[1].user_id # subs[2].user_id

\* C7: in every table reached, a subscribe call for an endpoint and owner that
\* have a row leaves that row with the supplied keys and active, also when it
\* was inactive, and the row is loaded by the next batch for that owner.
C7_Resubscribe ==
    \A u \in Users, e \in Endpoints, p \in P256dhKeys, a \in AuthKeys :
        LET after == subscribe_table(subs, u, e, p, a)
        IN  \A i \in RowsOf(subs, e, u) :
               /\ Len(after) >= i
               /\ after[i].p256dh_key = p
               /\ after[i].auth_key = a
               /\ after[i].is_active
               /\ after[i].id = subs[i].id
               /\ after[i].endpoint = e
               /\ after[i].user_id = u
               /\ subs[i].id \in Range(send_begin(after, u, 0).subscriptions)

C7_Witness ==
    /\ resp.op = "subscribe"
    /\ resp.detail = "updated"
    /\ batch["user"].pc = "returned"
    /\ batch["user"].inactive_subscriptions = <<1>>
    /\ subs[1].is_active
    /\ subs[1].p256dh_key = "p2"

\* C8: a subscribe call with a missing or empty endpoint, p256dh key or auth
\* key is answered with a 4xx status and leaves the table as it is.
C8_InvalidIsClientError ==
    [][\A u \in Users, in \in IncompleteInputs :
          subscribe_to_notifications(u, in[1], in[2], in[3])
          => /\ resp'.status \in 400..499
             /\ subs' = subs]_vars

\* C9: in every table the program reaches, the update that marks a set of ids
\* inactive leaves none of them among the active subscriptions, of all owners
\* and of each owner; it changes no other row and no other column; applied to
\* ids that are unknown or already inactive it changes nothing, so a second
\* application changes nothing.
C9_QuarantineIdempotent ==
    \A ids \in SUBSET (1..(Len(subs) + 1)) :
        LET q == quarantine(subs, ids)
        IN  /\ \A u \in {0} \cup Users :
                  Range(active_subscriptions(q, u)) \cap ids = {}
            /\ quarantine(q, ids) = q
            /\ Len(q) = Len(subs)
            /\ \A i \in 1..Len(q) :
                  q[i] = IF subs[i].id \in ids /\ subs[i].is_active
                         THEN [subs[i] EXCEPT !.is_active = FALSE]
                         ELSE subs[i]

C9_Witness ==
    /\ batch["all"].pc = "returned"
    /\ batch["all"].inactive_subscriptions = <<1, 2>>
    /\ ~subs[1].is_active
    /\ ~subs[2].is_active
    /\ quarantine(subs, {1, 2, 3}) = subs

\* C10: with the same n >= 1 candidates at every firing, the k-th firing
\* selects the candidate at position (k-1) mod n, and any n consecutive
\* firings select n different notes.
C10_RoundRobin ==
    \A k \in 1..Len(fired) :
        LET n == fired[k].n
        IN  (n >= 1 /\ \A j \in 1..k : fired[j].n = n)
            => /\ fired[k].index = (k - 1) % n
               /\ current_note_index >= k
               /\ (k >= n =>
                     Cardinality({fired[j].note_id : j \in (k - n + 1)..k}) = n)

C10_Witness ==
    /\ Len(fired) = 4
    /\ \A k \in 1..4 : fired[k].n = 3
    /\ <<fired[1].index, fired[2].index, fired[3].index, fired[4].index>>
          = <<0, 1, 2, 0>>
    /\ fired[1].note_id = fired[4].note_id
    /\ current_note_index = 4

\* the ids of the rows of the table that are active and, for the sender of one
\* user, owned by that user (user_id 0: every owner)
ActiveIdsOf(table, user_id) ==
    {table[i].id : i \in {j \in 1..Len(table) :
        table[j].is_active /\ (user_id = 0 \/ table[j].user_id = user_id)}}

\* the ids a batch attempted, in the order of the attempts
AttemptedIds(b) == [k \in 1..Len(b.attempts) |-> b.attempts[k].id]

\* C12: send_notification_to_all loads every active row of every owner and
\* send_notification_to_user(U) exactly the active rows of U; a sender attempts
\* the rows it loaded, each once, and a row it attempts is active and, for the
\* sender of U, owned by U.
C12_Targets ==
    [][\A slot \in Slots :
         /\ Called(slot) =>
               /\ (slot = "all") = (batch'[slot].user_id = 0)
               /\ Range(batch'[slot].subscriptions)
                     = ActiveIdsOf(subs, batch'[slot].user_id)
               /\ Len(batch'[slot].subscriptions)
                     = Cardinality(ActiveIdsOf(subs, batch'[slot].user_id))
         /\ Finished(slot) =>
               AttemptedIds(batch[slot]) = batch[slot].subscriptions
         /\ Len(batch'[slot].attempts) > Len(batch[slot].attempts) =>
               LET a == batch'[slot].attempts[Len(batch'[slot].attempts)]
               IN  /\ a.id \in Range(batch[slot].subscriptions)
                   /\ a.id \in ActiveIdsOf(subs, batch[slot].user_id)
      ]_vars

\* a send to one user has attempted that user's only row and left alone the
\* active row of the other user
C12_Witness ==
    /\ batch["user"].pc = "returned"
    /\ Len(batch["user"].attempts) = 1
    /\ Len(subs) = 2
    /\ subs[1].user_id # subs[2].user_id
    /\ \E i \in 1..2 :
          /\ subs[i].user_id # batch["user"].user_id
          /\ subs[i].is_active
          /\ subs[i].id \notin Range(AttemptedIds(batch["user"]))

\* C13: when send_notification_to_user(U) ends a batch whose only loaded row,
\* the only row of U, answered a permanent failure (410), it returns (0, 1)
\* and U has no active row left; a send to U on the resulting table returns
\* (0, 0) at once, with nothing loaded and nothing attempted.
C13_GoneEndpoint ==
    [][\A u \in Users :
         (/\ Finished("user")
          /\ batch["user"].user_id = u
          /\ Cardinality({i \in 1..Len(subs) : subs[i].user_id = u}) = 1
          /\ Len(batch["user"].attempts) = 1
          /\ batch["user"].attempts[1].outcome = "PermanentFailure")
         => /\ batch'["user"].result = <<0, 1>>
            /\ active_subscriptions(subs', u) = <<>>
            /\ LET later == send_begin(subs', u, batch["user"].note_id)
               IN  /\ later.pc = "returned"
                   /\ later.result = <<0, 0>>
                   /\ later.subscriptions = <<>>
                   /\ later.attempts = <<>>
      ]_vars

\* after a test send that answered, with no firing of the daily job, the only
\* row is inactive and a second send to its owner has returned (0, 0)
C13_Witness ==
    /\ Len(subs) = 1
    /\ subs[1].endpoint = Endpoint(1)
    /\ subs[1].user_id = 1
    /\ ~subs[1].is_active
    /\ fired = <<>>
    /\ resp.op = "test" /\ resp.status = 200
    /\ batch["user"].pc = "returned"
    /\ batch["user"].user_id = 1
    /\ batch["user"].result = <<0, 0>>
    /\ batch["user"].attempts = <<>>

\* the number of attempts of a batch that returned, or did not return, True
CountRet(b, delivered) ==
    Cardinality({k \in 1..Len(b.attempts) : (b.attempts[k].ret = "True") = delivered})

\* C17: no outcome of one attempt makes a sender raise or skip a loaded row:
\* a sender in its loop has attempted a prefix of the rows it loaded and counted
\* every attempt, and a sender that returned has attempted every loaded row
\* and returns (number delivered, number failed).
C17_BatchSurvivesFailures ==
    \A slot \in Slots :
        LET b == batch[slot]
        IN  /\ b.pc \in {"idle", "sending", "returned"}
            /\ Len(b.attempts) <= Len(b.subscriptions)
            /\ AttemptedIds(b) = SubSeq(b.subscriptions, 1, Len(b.attempts))
            /\ b.successful_sends = CountRet(b, TRUE)
            /\ b.failed_sends = CountRet(b, FALSE)
            /\ b.pc = "returned" =>
                  /\ Len(b.attempts) = Len(b.subscriptions)
                  /\ b.result = <<CountRet(b, TRUE), CountRet(b, FALSE)>>

\* a batch returned (1, 1) after its first attempt raised on a transient
\* failure and its second attempt was delivered
C17_Witness ==
    \E slot \in Slots :
        /\ batch[slot].pc = "returned"
        /\ Len(batch[slot].attempts) = 2
        /\ batch[slot].attempts[1].ret = "raise"
        /\ batch[slot].attempts[1].outcome = "TransientFailure"
        /\ batch[slot].attempts[2].outcome = "Delivered"
        /\ batch[slot].result = <<1, 1>>

\* C15: the scheduler is Stopped or Running; a call of start moves Stopped to
\* Running with the daily job registered, the only other change of state is
\* Running to Stopped, and stop in Stopped changes nothing; at most one job,
\* the daily one, is ever registered; a firing happens only in Running, one
\* at a time, and neither start nor stop fires or touches a batch.
C15_SchedulerStates ==
    [][/\ running \in BOOLEAN /\ running' \in BOOLEAN
       /\ starts' # starts =>
             /\ ~running /\ running'
             /\ jobs' = <<"daily_notification">>
       /\ running' # running =>
             /\ running' = (starts' # starts)
             /\ fired' = fired /\ batch' = batch
             /\ current_note_index' = current_note_index
       /\ (~running /\ stop) => UNCHANGED vars
       /\ Len(jobs') <= 1
       /\ Range(jobs') \subseteq {"daily_notification"}
       /\ Len(fired') > Len(fired) =>
             /\ running /\ running'
             /\ Len(fired') = Len(fired) + 1
      ]_vars

\* the scheduler runs again after start, stop, start, firings happened, and
\* one job is registered
C15_Witness ==
    /\ starts = 2
    /\ running
    /\ jobs = <<"daily_notification">>
    /\ Len(fired) >= 2

\* C14: a stop leaves the batch of the firing in flight, the table and the
\* cursor as they are; a batch in its loop only goes on to its next attempt or
\* to its return, over the rows it loaded; a stopped scheduler starts no
\* firing; and a batch in flight when the scheduler is stopped reaches its
\* return with every loaded row attempted.
C14_StopKeepsBatch ==
    /\ [][/\ (running /\ ~running') =>
              /\ batch' = batch /\ subs' = subs
              /\ fired' = fired /\ current_note_index' = current_note_index
          /\ ~running => (fired' = fired /\ ~Called("all"))
          /\ batch["all"].pc = "sending" =>
              /\ batch'["all"].pc \in {"sending", "returned"}
              /\ batch'["all"].subscriptions = batch["all"].subscriptions
              /\ Len(batch'["all"].attempts) >= Len(batch["all"].attempts)
          /\ Finished("all") =>
              /\ Len(batch["all"].attempts) = Len(batch["all"].subscriptions)
              /\ subs' = quarantine(subs, Range(batch["all"].inactive_subscriptions))
        ]_vars
    /\ (~running /\ batch["all"].pc = "sending")
          ~> (/\ batch["all"].pc = "returned"
              /\ Len(batch["all"].attempts) = Len(batch["all"].subscriptions))

\* the scheduler was stopped after a firing loaded its rows: the batch is in
\* its loop, with its update still to come
C14_Witness ==
    /\ ~running
    /\ batch["all"].pc = "sending"
    /\ Len(batch["all"].subscriptions) = 1
    /\ Len(batch["all"].attempts) = 1
    /\ batch["all"].inactive_subscriptions # <<>>

\* a VAPID key that the environment does not set
AbsentKey == \E name \in EnvNames : environ[name] = NoneVal

\* C16 as stated: with a VAPID key absent from the environment the process
\* does not start, and no delivery is attempted.
C16_FailFast ==
    AbsentKey =>
        /\ ~running /\ starts = 0
        /\ \A slot \in Slots : batch[slot].attempts = <<>>

\* C16, amended: an absent key never stops the startup; the service holds the
\* key of the environment when it is set and the key written in the source
\* otherwise, and every delivery attempt is signed with that key.
C16_DefaultKeys ==
    /\ (starts = 0 /\ ~running) => ENABLED start
    /\ vapid_private_key =
          (IF environ["VAPID_PRIVATE_KEY"] # NoneVal
           THEN environ["VAPID_PRIVATE_KEY"] ELSE DefaultPrivateKey)
    /\ vapid_public_key =
          (IF environ["VAPID_PUBLIC_KEY"] # NoneVal
           THEN environ["VAPID_PUBLIC_KEY"] ELSE DefaultPublicKey)
    /\ \A slot \in Slots : \A k \in 1..Len(batch[slot].attempts) :
          /\ batch[slot].attempts[k].key = vapid_private_key
          /\ batch[slot].attempts[k].key # NoneVal

\* with no private key in the environment the scheduler runs and a delivery
\* was attempted with the key written in the source
C16_Witness ==
    /\ environ["VAPID_PRIVATE_KEY"] = NoneVal
    /\ running
    /\ Len(batch["all"].attempts) = 1
    /\ batch["all"].attempts[1].key = DefaultPrivateKey

\* C11: the except clause of a firing leaves the scheduler running with its
\* job registered and the firing ended; and when the k-th firing ended in the
\* except clause, then the (k+1)-th firing occurs unless the scheduler is
\* stopped.
C11_FiringSurvivesFailure ==
    /\ [][caught' # caught =>
             /\ running' = running /\ jobs' = jobs
             /\ batch'["all"].pc = "idle"
             /\ subs' = subs
         ]_vars
    /\ \A k \in 1..(MaxFirings - 1) :
          (k \in caught /\ Len(fired) = k) ~> (Len(fired) > k \/ ~running)

\* the first firing ended in the except clause, the scheduler still runs and
\* the second firing delivered
C11_Witness ==
    /\ 1 \in caught
    /\ running
    /\ Len(fired) = 2
    /\ 2 \notin caught
    /\ batch["all"].pc = "returned"
    /\ batch["all"].result = <<1, 0>>

\* the step in which an exception leaves a sender: at its query or at its
\* update
Raised(slot) == batch[slot].pc # "raised" /\ batch'[slot].pc = "raised"

\* the step in which the caller of a sender handles the exception
Handled(slot) == batch[slot].pc = "raised" /\ batch'[slot].pc = "idle"

\* C18: when the query or the update of a sender raises, the sender returns no
\* counts and the table keeps its rows; the exception reaches the caller: the
\* test send answers 500, and the firing ends in its except clause with the
\* scheduler running and its job registered, and answers nothing.
C18_RegistryFailurePropagates ==
    [][/\ \A slot \in Slots :
             /\ Raised(slot) =>
                   /\ subs' = subs
                   /\ batch'[slot].result = <<0, 0>>
                   /\ \/ batch[slot].pc = "idle"
                      \/ /\ batch[slot].pc = "sending"
                         /\ batch[slot].inactive_subscriptions # <<>>
             /\ batch[slot].pc = "raised" =>
                   \/ batch'[slot] = batch[slot]
                   \/ Handled(slot)
       /\ Handled("user") =>
             /\ resp'.op = "test" /\ resp'.status = 500
             /\ subs' = subs /\ caught' = caught
       /\ Handled("all") =>
             /\ caught' = caught \cup {Len(fired)}
             /\ running' = running /\ jobs' = jobs
             /\ resp' = resp /\ subs' = subs
      ]_vars

\* a test send answered 500 and the first firing ended in its except clause,
\* each after its sender raised: the row is still active, the scheduler runs
C18_Witness ==
    /\ resp = [op |-> "test", status |-> 500, detail |-> "error"]
    /\ caught = {1}
    /\ running
    /\ current_note_index = 1
    /\ Len(subs) = 1 /\ subs[1].is_active
    /\ \A slot \in Slots : batch[slot].pc = "idle"

\* the first send to all and the first send to a user have both returned to
\* callers that are still in flight, and they loaded a common row
BothReturned ==
    /\ Len(fired) = 1
    /\ resp.op = "none"
    /\ batch["all"].pc = "returned"
    /\ batch["user"].pc = "returned"
    /\ Range(batch["all"].subscriptions) \cap Range(batch["user"].subscriptions) # {}

\* the ids one of the two batches loaded
LoadedByEither ==
    Range(batch["all"].subscriptions) \cup Range(batch["user"].subscriptions)

\* C19: when a send to all and a send to one user over a common row have both
\* returned, whatever the interleaving of their steps, a row they loaded is
\* inactive if and only if one of them recorded a permanent failure for it.
C19_InactiveIffPermanent ==
    BothReturned =>
        \A i \in 1..Len(subs) :
            subs[i].id \in LoadedByEither =>
                (~subs[i].is_active <=>
                    subs[i].id \in AttemptedWith(batch["all"], "PermanentFailure")
                        \cup AttemptedWith(batch["user"], "PermanentFailure"))

\* C20: when two subscribe calls for the same endpoint and user, unknown to
\* the table before them, have both answered, whatever the interleaving of
\* their steps, both answered 200 and the table has exactly one row for the
\* endpoint: active, owned by the user, with the keys of one of the calls.
C20_AtomicUpsert ==
    (/\ req[1].pc = "done" /\ req[2].pc = "done"
     /\ req[1].endpoint = req[2].endpoint
     /\ req[1].user_id = req[2].user_id
     /\ subscription_data_valid(req[1].endpoint, req[1].p256dh, req[1].auth)
     /\ subscription_data_valid(req[2].endpoint, req[2].p256dh, req[2].auth))
    => /\ req[1].status = 200 /\ req[2].status = 200
       /\ Cardinality({i \in 1..Len(subs) : subs[i].endpoint = req[1].endpoint}) = 1
       /\ \A i \in 1..Len(subs) :
             subs[i].endpoint = req[1].endpoint =>
                /\ subs[i].is_active
                /\ subs[i].user_id = req[1].user_id
                /\ \E w \in Workers : /\ subs[i].p256dh_key = req[w].p256dh
                                       /\ subs[i].auth_key = req[w].auth

\* the rows whose is_active goes from True to False in a step
Deactivated ==
    {subs[i].id : i \in {j \in 1..Len(subs) :
        j <= Len(subs') /\ subs[j].is_active /\ ~subs'[j].is_active}}

\* the step of a delivery attempt of a batch
Attempted(slot) == Len(batch'[slot].attempts) > Len(batch[slot].attempts)

\* C21: a row goes inactive only in the one step that ends the loop of a
\* batch, after the attempts to all its loaded rows, when the batch collected
\* at least one id, and the rows that go inactive are collected ones; a
\* delivery attempt leaves the table alone, a batch that collected nothing
\* issues no update, and a batch that returned is not updated again.
C21_QuarantineOnceAtEnd ==
    [][/\ Deactivated # {} =>
             \E slot \in Slots :
                /\ Finished(slot)
                /\ Len(batch[slot].attempts) = Len(batch[slot].subscriptions)
                /\ batch[slot].inactive_subscriptions # <<>>
                /\ Deactivated \subseteq Range(batch[slot].inactive_subscriptions)
       /\ \A slot \in Slots :
             /\ Attempted(slot) => subs' = subs
             /\ (Finished(slot) /\ batch[slot].inactive_subscriptions = <<>>) =>
                   subs' = subs
             /\ batch[slot].pc = "returned" =>
                   (Deactivated = {} /\ batch'[slot].pc \in {"returned", "idle"})
      ]_vars

\* a batch over two rows is in its loop after a failed first attempt, and
\* both rows are still active
C21_Witness ==
    \E slot \in Slots :
        /\ batch[slot].pc = "sending"
        /\ Len(batch[slot].subscriptions) = 2
        /\ Len(batch[slot].attempts) = 1
        /\ batch[slot].inactive_subscriptions = <<batch[slot].subscriptions[1]>>
        /\ \A i \in 1..Len(subs) : subs[i].is_active

\* the step in which the daily job fires
Fired == Len(fired') > Len(fired)

\* C22: a firing that finds no note with a summary records that it selected
\* nothing and changes nothing else: no sender is called, no delivery is
\* attempted, the table and the cursor stay, the scheduler keeps running with
\* its job, and the firing does not end in the except clause.
C22_EmptySkips ==
    [][(Fired /\ notes_with_summary(notes) = <<>>) =>
          /\ fired' = Append(fired, [n |-> 0, index |-> 0, note_id |-> 0])
          /\ batch' = batch
          /\ subs' = subs
          /\ current_note_index' = current_note_index
          /\ caught' = caught
          /\ running' /\ jobs' = jobs
          /\ resp' = resp
      ]_vars

\* two firings found no candidate while a subscription is active: the cursor
\* is where it started and no batch is in flight
C22_Witness ==
    /\ notes_with_summary(notes) = <<>>
    /\ Len(notes) >= 1
    /\ Len(fired) = 2
    /\ current_note_index = 0
    /\ Len(subs) = 1 /\ subs[1].is_active
    /\ batch["all"].pc = "idle"
    /\ running

\* a note whose summary is a non-empty string
NonEmptySummary(note) == Truthy(note.ai_summary)

\* C23: the candidates of a firing are exactly the notes with a non-empty
\* summary: no stored summary is the empty string, the query of the firing
\* yields the notes with a non-empty summary, and every note a firing
\* selected or a batch announces has a non-empty summary.
C23_NonEmptyCandidates ==
    /\ \A i \in 1..Len(notes) : notes[i].ai_summary # ""
    /\ notes_with_summary(notes) = SelectSeq(notes, NonEmptySummary)
    /\ \A k \in 1..Len(fired) :
          fired[k].note_id # 0 => NonEmptySummary(notes[fired[k].note_id])
    /\ \A slot \in Slots :
          batch[slot].note_id # 0 => NonEmptySummary(notes[batch[slot].note_id])

\* a firing delivered the second note, the only one with a summary, while the
\* first note has none
C23_Witness ==
    /\ Len(notes) >= 2
    /\ notes[1].ai_summary = NoneVal
    /\ Len(fired) >= 1
    /\ fired[1] = [n |-> 1, index |-> 0, note_id |-> 2]
    /\ batch["all"].pc = "returned"
    /\ batch["all"].note_id = 2
    /\ batch["all"].result = <<1, 0>>

\* a row with its is_active column left out
Identity(r) ==
    [id |-> r.id, endpoint |-> r.endpoint, p256dh_key |-> r.p256dh_key,
     auth_key |-> r.auth_key, user_id |-> r.user_id]

\* C24: no step of the subsystem removes a row or changes the id of one; and
\* a step of a sender or of a firing adds no row, leaves the endpoint, keys
\* and owner of every row as they are, and changes is_active only from True
\* to False.
C24_BatchFrame ==
    [][/\ Len(subs') >= Len(subs)
       /\ \A i \in 1..Len(subs) : subs'[i].id = subs[i].id
       /\ (batch' # batch \/ fired' # fired) =>
             /\ Len(subs') = Len(subs)
             /\ \A i \in 1..Len(subs) :
                   /\ Identity(subs'[i]) = Identity(subs[i])
                   /\ subs'[i].is_active => subs[i].is_active
      ]_vars

\* a firing's batch over two rows has returned: the row it failed on is
\* inactive, the other is active, both are still in the table
C24_Witness ==
    /\ batch["all"].pc = "returned"
    /\ Len(batch["all"].attempts) = 2
    /\ batch["all"].inactive_subscriptions = <<1>>
    /\ Len(subs) = 2
    /\ ~subs[1].is_active /\ subs[1].id = 1
    /\ subs[2].is_active /\ subs[2].id = 2

\* C25: a test send of a user with no summarised note answers 404.
C25_NoNotesIs404 ==
    (resp.op = "test" /\ resp.detail = "no_notes") => resp.status = 404

\* C26: the cursor never decreases; a firing that finds candidates adds one
\* to it in its first step, before any delivery, and no other step changes
\* it, whether the batch then returns or raises; so after a firing over n
\* candidates, also one that ended in the except clause, the next firing over
\* n candidates selects the following position, another note when n > 1.
C26_CursorAdvances ==
    [][/\ current_note_index' >= current_note_index
       /\ (Fired /\ fired'[Len(fired')].n > 0) =>
             /\ current_note_index' = current_note_index + 1
             /\ batch'["all"].attempts = <<>>
       /\ (~Fired \/ fired'[Len(fired')].n = 0) =>
             current_note_index' = current_note_index
       /\ \A k \in 1..(Len(fired') - 1) :
             (fired'[k].n > 0 /\ fired'[k + 1].n = fired'[k].n) =>
                /\ fired'[k + 1].index = (fired'[k].index + 1) % fired'[k].n
                /\ fired'[k].n > 1 => fired'[k + 1].note_id # fired'[k].note_id
      ]_vars

\* the first firing selected one of two candidates and ended in the except
\* clause; the second firing selected the other candidate
C26_Witness ==
    /\ 1 \in caught
    /\ Len(fired) = 2
    /\ fired[1].n = 2 /\ fired[2].n = 2
    /\ fired[1].index = 0 /\ fired[2].index = 1
    /\ current_note_index = 2

\* the ids of the attempts of a batch that did not return True
FailedIds(b) ==
    {b.attempts[k].id : k \in {j \in 1..Len(b.attempts) : b.attempts[j].ret # "True"}}

\* C27: for a sender that returned, the two counts add up to the number of
\* rows it loaded, it attempted each loaded row exactly once, and the ids it
\* passes to the update are loaded rows whose attempt it counted as failed,
\* as many as its count of failures.
C27_CountsAddUp ==
    \A slot \in Slots :
        LET b == batch[slot]
        IN  b.pc = "returned" =>
              /\ b.result[1] + b.result[2] = Len(b.subscriptions)
              /\ Cardinality(Range(b.subscriptions)) = Len(b.subscriptions)
              /\ \A id \in Range(b.subscriptions) :
                    Cardinality({k \in 1..Len(b.attempts) : b.attempts[k].id = id}) = 1
              /\ Range(AttemptedIds(b)) \subseteq Range(b.subscriptions)
              /\ Range(b.inactive_subscriptions) \subseteq FailedIds(b)
              /\ FailedIds(b) \subseteq Range(b.subscriptions)
              /\ Cardinality(FailedIds(b)) = b.result[2]

\* a batch over two rows returned (1, 1): the first row was delivered to, the
\* second answered a permanent failure and is the only collected id
C27_Witness ==
    \E slot \in Slots :
        /\ batch[slot].pc = "returned"
        /\ Len(batch[slot].subscriptions) = 2
        /\ batch[slot].attempts[1].ret = "True"
        /\ batch[slot].attempts[2].ret = "False"
        /\ batch[slot].result = <<1, 1>>
        /\ batch[slot].inactive_subscriptions = <<batch[slot].subscriptions[2]>>

\* the endpoint has a row in the table and the user does not own it
OwnedByAnother(table, endpoint, user_id) ==
    \E i \in 1..Len(table) :
        table[i].endpoint = endpoint /\ table[i].user_id # user_id

\* C28: in every reachable table, a subscribe call with complete data for an
\* endpoint whose row belongs to another user is answered with the error
\* status 500 and leaves the table as it is; and a call that was answered
\* with the integrity error has status 500.
C28_ForeignEndpoint ==
    /\ \A u \in Users, in \in CompleteInputs :
          OwnedByAnother(subs, in[1], u) =>
             /\ subscribe_branch(subs, u, in[1], in[2], in[3]) = "integrity_error"
             /\ subscribe_status(subs, u, in[1], in[2], in[3]) = 500
             /\ subscribe_table(subs, u, in[1], in[2], in[3]) = subs
    /\ (resp.op = "subscribe" /\ resp.detail = "integrity_error") =>
          resp.status = 500

\* the last subscribe call was refused for an endpoint of another user: the
\* table has the one row of user 1, active, with the keys user 1 gave
C28_Witness ==
    /\ resp = [op |-> "subscribe", status |-> 500, detail |-> "integrity_error"]
    /\ subs = <<PushSubscription(1, Endpoint(1), "p1", "a1", 1, TRUE)>>

\* the table with only the rows of one user
OnlyRowsOf(table, user_id) ==
    LET own(r) == r.user_id = user_id
    IN  SelectSeq(table, own)

\* the ids of the rows of the table
IdsOf(table) == {table[i].id : i \in 1..Len(table)}

\* what the attempts of a batch returned, by subscription id
RetsOf(b) ==
    [id \in Range(AttemptedIds(b)) |->
        b.attempts[CHOOSE k \in 1..Len(b.attempts) : b.attempts[k].id = id].ret]

\* C29: from every reachable table, for every user U and every assignment of
\* delivery results to the rows, send_notification_to_user(U) returns the
\* counts and collects the ids that send_notification_to_all returns and
\* collects on the table with only the rows of U, leaves the rows of U as
\* that run leaves them and the rows of the other users as they were; and a
\* send to a user that returned has the counts of such a run over its rows.
C29_OwnerIsRestrictedAll ==
    /\ \A u \in Users : \A rets \in [IdsOf(subs) -> Rets] :
          LET own == send_notification_to_user(subs, u, rets)
              all == send_notification_to_all(OnlyRowsOf(subs, u), rets)
          IN  /\ own.result = all.result
              /\ own.inactive = all.inactive
              /\ OnlyRowsOf(own.table, u) = all.table
              /\ Len(own.table) = Len(subs)
              /\ \A i \in 1..Len(subs) :
                    subs[i].user_id # u => own.table[i] = subs[i]
    /\ LET b == batch["user"]
       IN  b.pc = "returned" =>
             LET b1 == for_loop([IdleBatch EXCEPT !.subscriptions = b.subscriptions],
                                1, RetsOf(b))
             IN  /\ b.result = <<b1.successful_sends, b1.failed_sends>>
                 /\ b.inactive_subscriptions = b1.inactive_subscriptions

\* a send to user 1 returned (0, 1) over a table with an inactive row of
\* user 1 and an active row of user 2, which it did not attempt
C29_Witness ==
    /\ batch["user"].pc = "returned"
    /\ batch["user"].user_id = 1
    /\ batch["user"].result = <<0, 1>>
    /\ Len(subs) = 2
    /\ \E i \in 1..2 : subs[i].user_id = 1 /\ ~subs[i].is_active
    /\ \E i \in 1..2 : subs[i].user_id = 2 /\ subs[i].is_active
    /\ fired = <<>>

====
